---- MODULE Spec2Model ----
(***************************************************************************)
(* redis2http worker of thr (src/thr/redis2http/app.py): intake from the   *)
(* redis source queues into the in-process toro queue, admission check,    *)
(* requeue on denial, backend dispatch, counter release and publication    *)
(* of the response on the response key.                                    *)
(*                                                                         *)
(* A redis list is a sequence whose head (index 1) is the LPUSH side and   *)
(* whose last element is the (B)RPOP side.  Every suspension point of a    *)
(* coroutine (a yield on a redis call or on an http fetch) ends one step;  *)
(* the code between two suspension points is one atomic action.  A         *)
(* tornadis pipeline is one redis round trip and is one step.              *)
(***************************************************************************)
EXTENDS Integers, Sequences, FiniteSets, TLC

\* number of requests the ingress side submits
MaxEntries == 2
\* number of requests submitted in the intake-only specification
IntakeEntries == 101

DEFAULT_LOCAL_QUEUE_MAX_SIZE == 100

Nil == "None"

Queues == {"q1", "q2"}
\* The worker processes whose toro queue and intake coroutine are modelled.
\* The coroutines handling the requests interleave freely whatever process
\* runs them: they share nothing but redis.
Workers == {"w1"}

\* the values the counters may already hold when the worker starts (the
\* same value for every key)
Presets == {0, 1}

\* conftest of the worker: registered limits (name, matcher, hash, max)
limits ==
    << [name |-> "all", paths |-> {"/foo", "/bar"}, byUrl |-> FALSE, max |-> 2],
       [name |-> "bar", paths |-> {"/bar"},         byUrl |-> TRUE,  max |-> 1] >>

\* the requests the ingress side may submit: path and optional body link
Requests ==
    { [path |-> "/foo", body_link |-> "http://body"],
      [path |-> "/bar", body_link |-> Nil],
      [path |-> "/baz", body_link |-> Nil] }

\* what the backend may answer to a fetch that succeeds
BackendResponses ==
    { [code |-> 200, body |-> "bar"] }

\* toro.Queue() is built without maxsize: 0, no size limit
request_queue_maxsize == 0

----------------------------------------------------------------------------
(* Wire codec (thr.utils) *)

\* serialize_http_request(request, dict_to_inject={"response_key": ...})
serialize_http_request(req, rk) ==
    << "GET", req.path, req.body_link, << "response_key", rk >> >>

\* unserialize_request_message(msg, force_host): (request, body_link, extra_dict)
unserialize_request_message(msg, force_host) ==
    [request    |-> [method |-> msg[1], url |-> << force_host, msg[2] >>,
                     body |-> ""],
     body_link  |-> msg[3],
     extra_dict |-> [response_key |-> msg[4][2]]]

\* serialize_http_response(response)
serialize_http_response(response) ==
    << "status_code", response.code, "body", response.body >>

----------------------------------------------------------------------------
(* Admission control (thr.redis2http.limits) *)

LimitKey(l, request) ==
    << l.name, IF l.byUrl THEN request.url[2] ELSE "*" >>

\* every key a registered limit produces for a request it applies to
AllKeys ==
    UNION { { LimitKey(limits[i], [url |-> << "h", r.path >>]) :
                r \in { x \in Requests : x.path \in limits[i].paths } } :
            i \in DOMAIN limits }

KeyMax(k) ==
    LET i == CHOOSE j \in DOMAIN limits : limits[j].name = k[1]
    IN  limits[i].max

\* the keys of the limits whose matcher applies to the request
ApplicableKeys(request) ==
    { LimitKey(limits[i], request) :
        i \in { j \in DOMAIN limits : request.url[2] \in limits[j].paths } }

\* get_busy_workers(hash): GET of the counter
get_busy_workers(cnt, hash) == cnt[hash]

\* Limits.check(request): None when a counter has reached its limit,
\* the (possibly empty) collection of keys otherwise.  It only reads the
\* counters (the INCR is process_request's), all of them in one step.
LimitsCheck(cnt, request) ==
    LET keys == ApplicableKeys(request)
    IN  IF \E k \in keys : get_busy_workers(cnt, k) >= KeyMax(k)
        THEN [is_none |-> TRUE,  keys |-> {}]
        ELSE [is_none |-> FALSE, keys |-> keys]

----------------------------------------------------------------------------
VARIABLES
    queues,         \* redis: source queue name -> list of serialized requests
    counters,       \* redis: limit key -> number of busy workers
    responses,      \* redis: response key -> list of serialized responses
    request_queue,  \* per worker process: the toro queue (local buffer)
    intake,         \* per worker process: request_redis_handler coroutine
    pc,             \* per request: position of the coroutine handling it
    task,           \* per request: locals of that coroutine
    submitted,      \* per request: <<queue, message>> the ingress pushed
    denied,         \* per request: some handling of it was denied
    nincr,          \* per request and key: INCR commands issued
    ndecr,          \* per request and key: DECR commands issued
    nfetch,         \* per request: http fetches issued (body link, backend)
    preset          \* the counters' values when the worker started

\* the rule engine (src/thr/http2redis/rules.py), which the worker does not
\* touch
VARIABLES
    exchange,       \* the HTTPExchange the rules are run on
    ruleset,        \* Rules.rules
    rframe,         \* the frame of Rules._execute
    aframe,         \* the frame of Actions._execute
    rlog,           \* what the rule engine evaluated, called and applied
    cframe          \* a call of Criteria.match and what it returned

rvars == << exchange, ruleset, rframe, aframe, rlog, cframe >>

vars == << queues, counters, responses, request_queue, intake, pc, task,
           submitted, denied, nincr, ndecr, nfetch, preset, rvars >>

Entries == DOMAIN pc

NoResult == [ok |-> FALSE, code |-> 0, body |-> ""]

NoTask ==
    [origin_queue |-> "", serialized_request |-> <<>>,
     request |-> [method |-> "", url |-> <<>>, body |-> ""],
     body_link |-> Nil, response_key |-> 0,
     hashes |-> [is_none |-> FALSE, keys |-> {}],
     result |-> NoResult]

\* the rule engine at rest
RulesUnused ==
    /\ exchange = << >>
    /\ ruleset = << >>
    /\ rframe = << >>
    /\ aframe = << >>
    /\ rlog = << >>
    /\ cframe = << >>

\* the worker before any request, with n requests to come
DispatchInit(n) ==
    /\ queues = [q \in Queues |-> <<>>]
    /\ preset \in { [k \in AllKeys |-> v] : v \in Presets }
    /\ counters = preset
    /\ responses = [e \in 1..n |-> <<>>]
    /\ request_queue = [w \in Workers |-> <<>>]
    /\ intake = [w \in Workers |-> [pc |-> "idle", request |-> <<>>]]
    /\ pc = [e \in 1..n |-> "idle"]
    /\ task = [e \in 1..n |-> NoTask]
    /\ submitted = [e \in 1..n |-> <<>>]
    /\ denied = [e \in 1..n |-> FALSE]
    /\ nincr = [e \in 1..n |-> [k \in AllKeys |-> 0]]
    /\ ndecr = [e \in 1..n |-> [k \in AllKeys |-> 0]]
    /\ nfetch = [e \in 1..n |-> [body |-> 0, backend |-> 0]]

InitWith(n) == DispatchInit(n) /\ RulesUnused

Init == InitWith(MaxEntries)

----------------------------------------------------------------------------
(* Redis list commands *)

LPUSH(list, value) == << value >> \o list

RPOP(list) == SubSeq(list, 1, Len(list) - 1)

Last(list) == list[Len(list)]

\* toro.Queue.full()
Full(buf) ==
    IF request_queue_maxsize = 0 THEN FALSE
    ELSE Len(buf) >= request_queue_maxsize

----------------------------------------------------------------------------
(* Ingress side: LPUSH of a serialized request on a source queue.  The     *)
(* response key of a request is its number; requests are submitted in the  *)
(* order of their numbers.                                                 *)

SubmitRequest(e, q, req) ==
    /\ submitted[e] = <<>>
    /\ \A d \in Entries : d < e => submitted[d] # <<>>
    /\ LET msg == serialize_http_request(req, e)
       IN  /\ queues' = [queues EXCEPT ![q] = LPUSH(@, msg)]
           /\ submitted' = [submitted EXCEPT ![e] = << q, msg >>]
    /\ UNCHANGED << counters, responses, request_queue, intake, pc, task,
                    denied, nincr, ndecr, nfetch, preset >>

----------------------------------------------------------------------------
(* request_redis_handler(queue) *)

\* variant: the reply is labelled with a fixed queue name, not with the
\* name of the queue the entry was popped from
RequestRedisHandlerBRPOP_FirstQueueName(w, q) ==
    /\ intake[w].pc = "idle"
    /\ \/ /\ queues[q] # <<>>
          /\ intake' = [intake EXCEPT
                ![w] = [pc |-> "reply",
                        request |-> << "q1", Last(queues[q]) >>]]
          /\ queues' = [queues EXCEPT ![q] = RPOP(@)]
       \/ /\ queues[q] = <<>>
          /\ intake' = [intake EXCEPT
                ![w] = [pc |-> "reply", request |-> <<>>]]
          /\ UNCHANGED queues
    /\ UNCHANGED << counters, responses, request_queue, pc, task, submitted,
                    denied, nincr, ndecr, nfetch, preset >>

\* BRPOP queue 5 answers: [queue, value], or nothing after the timeout
RequestRedisHandlerBRPOP(w, q) ==
    /\ intake[w].pc = "idle"
    /\ \/ /\ queues[q] # <<>>
          /\ intake' = [intake EXCEPT
                ![w] = [pc |-> "reply", request |-> << q, Last(queues[q]) >>]]
          /\ queues' = [queues EXCEPT ![q] = RPOP(@)]
       \/ /\ queues[q] = <<>>
          /\ intake' = [intake EXCEPT
                ![w] = [pc |-> "reply", request |-> <<>>]]
          /\ UNCHANGED queues
    /\ UNCHANGED << counters, responses, request_queue, pc, task, submitted,
                    denied, nincr, ndecr, nfetch, preset >>

\* if request: yield request_queue.put(request)
RequestRedisHandlerPut(w) ==
    /\ intake[w].pc = "reply"
    /\ \/ /\ intake[w].request # <<>>
          /\ ~Full(request_queue[w])
          /\ request_queue' =
                [request_queue EXCEPT ![w] = Append(@, intake[w].request)]
       \/ /\ intake[w].request = <<>>
          /\ UNCHANGED request_queue
    /\ intake' = [intake EXCEPT ![w] = [pc |-> "idle", request |-> <<>>]]
    /\ UNCHANGED << queues, counters, responses, pc, task, submitted,
                    denied, nincr, ndecr, nfetch, preset >>

----------------------------------------------------------------------------
(* request_toro_handler() *)

\* origin_queue, serialized_request = yield request_queue.get(), then
\* unserialize_request_message(serialized_request, force_host=...)
RequestToroHandlerGet(w) ==
    /\ request_queue[w] # <<>>
    /\ LET item == Head(request_queue[w])
           msg  == unserialize_request_message(item[2], "localhost:8082")
           e    == msg.extra_dict.response_key
       IN  /\ pc[e] = "idle"
           /\ pc' = [pc EXCEPT ![e] = "check"]
           /\ task' = [task EXCEPT ![e] =
                 [origin_queue       |-> item[1],
                  serialized_request |-> item[2],
                  request            |-> msg.request,
                  body_link          |-> msg.body_link,
                  response_key       |-> msg.extra_dict.response_key,
                  hashes             |-> [is_none |-> FALSE, keys |-> {}],
                  result             |-> NoResult]]
    /\ request_queue' = [request_queue EXCEPT ![w] = Tail(@)]
    /\ UNCHANGED << queues, counters, responses, intake, submitted, denied,
                    nincr, ndecr, nfetch, preset >>

\* where process_request first suspends once the counters are dealt with:
\* on the body link fetch, or on the backend fetch it then issues
AfterIncr(e) == IF task[e].body_link # Nil THEN "body" ELSE "fetch"

\* where finalize_request first suspends
FinalizeStart(e) == IF task[e].hashes.keys # {} THEN "decr" ELSE "publish"

\* variant: the INCR pipeline is sent before the limits are compared, so a
\* denied request has touched the counters
RequestToroHandlerCheck_IncrOnDenial(e) ==
    /\ pc[e] = "check"
    /\ LET hashes == LimitsCheck(counters, task[e].request)
           keys   == ApplicableKeys(task[e].request)
       IN  /\ task' = [task EXCEPT ![e].hashes = hashes]
           /\ counters' = [k \in AllKeys |->
                 IF k \in keys THEN counters[k] + 1 ELSE counters[k]]
           /\ nincr' = [nincr EXCEPT ![e] = [k \in AllKeys |->
                 IF k \in keys THEN @[k] + 1 ELSE @[k]]]
           /\ IF hashes.is_none
              THEN /\ pc' = [pc EXCEPT ![e] = "requeue"]
                   /\ UNCHANGED nfetch
              ELSE /\ pc' = [pc EXCEPT ![e] = AfterIncr(e)]
                   /\ nfetch' = [nfetch EXCEPT
                         ![e].body = @ + (IF task[e].body_link # Nil
                                          THEN 1 ELSE 0),
                         ![e].backend = @ + (IF task[e].body_link = Nil
                                             THEN 1 ELSE 0)]
    /\ UNCHANGED << queues, responses, request_queue, intake, submitted,
                    denied, ndecr, preset >>

\* variant: "if not hashes" in place of "if hashes is None": a request
\* without keys is requeued like a denied one
RequestToroHandlerCheck_EmptyIsNone(e) ==
    /\ pc[e] = "check"
    /\ LET hashes == LimitsCheck(counters, task[e].request)
       IN  /\ task' = [task EXCEPT ![e].hashes = hashes]
           /\ IF hashes.is_none \/ hashes.keys = {}
              THEN /\ pc' = [pc EXCEPT ![e] = "requeue"]
                   /\ UNCHANGED nfetch
              ELSE /\ pc' = [pc EXCEPT ![e] = "incr"]
                   /\ nfetch' = [nfetch EXCEPT
                         ![e].body = @ + (IF task[e].body_link # Nil
                                          THEN 1 ELSE 0)]
    /\ UNCHANGED << queues, counters, responses, request_queue, intake,
                    submitted, denied, nincr, ndecr, preset >>

\* hashes = yield Limits.check(request); on None the handler goes on to
\* requeue, otherwise process_request is started and runs to its first
\* suspension: the body link fetch is issued, then the INCR pipeline awaits
\* a client when there are hashes
RequestToroHandlerCheck(e) ==
    /\ pc[e] = "check"
    /\ LET hashes == LimitsCheck(counters, task[e].request)
       IN  /\ task' = [task EXCEPT ![e].hashes = hashes]
           /\ IF hashes.is_none
              THEN /\ pc' = [pc EXCEPT ![e] = "requeue"]
                   /\ UNCHANGED nfetch
              ELSE /\ pc' = [pc EXCEPT ![e] =
                         IF hashes.keys # {} THEN "incr" ELSE AfterIncr(e)]
                   /\ nfetch' = [nfetch EXCEPT
                         ![e].body = @ + (IF task[e].body_link # Nil
                                          THEN 1 ELSE 0),
                         ![e].backend = @ + (IF hashes.keys = {}
                                                /\ task[e].body_link = Nil
                                             THEN 1 ELSE 0)]
    /\ UNCHANGED << queues, counters, responses, request_queue, intake,
                    submitted, denied, nincr, ndecr, preset >>

\* variant: the request is pushed back on the default queue
RequestToroHandlerRequeue_DefaultQueue(e) ==
    /\ pc[e] = "requeue"
    /\ queues' = [queues EXCEPT
          !["q1"] = LPUSH(@, task[e].serialized_request)]
    /\ pc' = [pc EXCEPT ![e] = "idle"]
    /\ denied' = [denied EXCEPT ![e] = TRUE]
    /\ UNCHANGED << counters, responses, request_queue, intake, task,
                    submitted, nincr, ndecr, nfetch, preset >>

\* variant: no "else": after the requeue the request is dispatched too
RequestToroHandlerRequeue_FallThrough(e) ==
    /\ pc[e] = "requeue"
    /\ queues' = [queues EXCEPT
          ![task[e].origin_queue] = LPUSH(@, task[e].serialized_request)]
    /\ pc' = [pc EXCEPT ![e] = AfterIncr(e)]
    /\ nfetch' = [nfetch EXCEPT
          ![e].body = @ + (IF task[e].body_link # Nil THEN 1 ELSE 0),
          ![e].backend = @ + (IF task[e].body_link = Nil THEN 1 ELSE 0)]
    /\ denied' = [denied EXCEPT ![e] = TRUE]
    /\ UNCHANGED << counters, responses, request_queue, intake, task,
                    submitted, nincr, ndecr, preset >>

\* redis.call('LPUSH', origin_queue, serialized_request)
RequestToroHandlerRequeue(e) ==
    /\ pc[e] = "requeue"
    /\ queues' = [queues EXCEPT
          ![task[e].origin_queue] = LPUSH(@, task[e].serialized_request)]
    /\ pc' = [pc EXCEPT ![e] = "idle"]
    /\ denied' = [denied EXCEPT ![e] = TRUE]
    /\ UNCHANGED << counters, responses, request_queue, intake, task,
                    submitted, nincr, ndecr, nfetch, preset >>

----------------------------------------------------------------------------
(* process_request(request, hashes, body_link) *)

\* the pipeline of one INCR per hash
ProcessRequestIncr(e) ==
    /\ pc[e] = "incr"
    /\ counters' = [k \in AllKeys |->
          IF k \in task[e].hashes.keys THEN counters[k] + 1 ELSE counters[k]]
    /\ nincr' = [nincr EXCEPT ![e] = [k \in AllKeys |->
          IF k \in task[e].hashes.keys THEN @[k] + 1 ELSE @[k]]]
    /\ pc' = [pc EXCEPT ![e] = AfterIncr(e)]
    /\ nfetch' = [nfetch EXCEPT
          ![e].backend = @ + (IF task[e].body_link = Nil THEN 1 ELSE 0)]
    /\ UNCHANGED << queues, responses, request_queue, intake, task,
                    submitted, denied, ndecr, preset >>

\* request.body = yield body: the body link fetch ends, with the body or
\* with an error that ends process_request
ProcessRequestBody(e, ok) ==
    /\ pc[e] = "body"
    /\ IF ok
       THEN /\ task' = [task EXCEPT ![e].request.body = "fetched"]
            /\ pc' = [pc EXCEPT ![e] = "fetch"]
            /\ nfetch' = [nfetch EXCEPT ![e].backend = @ + 1]
       ELSE /\ task' = [task EXCEPT ![e].result = NoResult]
            /\ pc' = [pc EXCEPT ![e] = FinalizeStart(e)]
            /\ UNCHANGED nfetch
    /\ UNCHANGED << queues, counters, responses, request_queue, intake,
                    submitted, denied, nincr, ndecr, preset >>

\* response = yield async_client.fetch(request): the backend answers, or
\* the fetch raises (transport error, HTTPError); either way the future of
\* process_request is done and add_future runs finalize_request
ProcessRequestFetch(e, ok, response) ==
    /\ pc[e] = "fetch"
    /\ task' = [task EXCEPT ![e].result =
          IF ok THEN [ok |-> TRUE, code |-> response.code,
                      body |-> response.body]
                ELSE NoResult]
    /\ pc' = [pc EXCEPT ![e] = FinalizeStart(e)]
    /\ UNCHANGED << queues, counters, responses, request_queue, intake,
                    submitted, denied, nincr, ndecr, nfetch, preset >>

----------------------------------------------------------------------------
(* finalize_request(response_key, hashes, response) *)

\* variant: the counters are released only when process_request succeeded
FinalizeRequestDecr_OnlyOnSuccess(e) ==
    /\ pc[e] = "decr"
    /\ counters' = [k \in AllKeys |->
          IF k \in task[e].hashes.keys /\ task[e].result.ok
          THEN counters[k] - 1 ELSE counters[k]]
    /\ ndecr' = [ndecr EXCEPT ![e] = [k \in AllKeys |->
          IF k \in task[e].hashes.keys /\ task[e].result.ok
          THEN @[k] + 1 ELSE @[k]]]
    /\ pc' = [pc EXCEPT ![e] = "publish"]
    /\ UNCHANGED << queues, responses, request_queue, intake, task,
                    submitted, denied, nincr, nfetch, preset >>

\* the pipeline of one DECR per hash
FinalizeRequestDecr(e) ==
    /\ pc[e] = "decr"
    /\ counters' = [k \in AllKeys |->
          IF k \in task[e].hashes.keys THEN counters[k] - 1 ELSE counters[k]]
    /\ ndecr' = [ndecr EXCEPT ![e] = [k \in AllKeys |->
          IF k \in task[e].hashes.keys THEN @[k] + 1 ELSE @[k]]]
    /\ pc' = [pc EXCEPT ![e] = "publish"]
    /\ UNCHANGED << queues, responses, request_queue, intake, task,
                    submitted, denied, nincr, nfetch, preset >>

\* variant: the response is pushed before the DECR pipeline is sent
FinalizeRequestPublish_BeforeDecr(e) ==
    /\ pc[e] \in {"decr", "publish"}
    /\ pc[e] = "decr" => (task[e].result.ok /\ responses[e] = <<>>)
    /\ IF task[e].result.ok /\ responses[e] = <<>>
       THEN responses' = [responses EXCEPT ![task[e].response_key] =
              LPUSH(@, serialize_http_response(task[e].result))]
       ELSE UNCHANGED responses
    /\ pc' = [pc EXCEPT ![e] = IF pc[e] = "decr" THEN "decr" ELSE "done"]
    /\ UNCHANGED << queues, counters, request_queue, intake, task,
                    submitted, denied, nincr, ndecr, nfetch, preset >>

\* redis.call('LPUSH', response_key,
\*            serialize_http_response(response.result()));
\* response.result() raises when process_request raised
FinalizeRequestPublish(e) ==
    /\ pc[e] = "publish"
    /\ IF task[e].result.ok
       THEN responses' = [responses EXCEPT ![task[e].response_key] =
              LPUSH(@, serialize_http_response(task[e].result))]
       ELSE UNCHANGED responses
    /\ pc' = [pc EXCEPT ![e] = "done"]
    /\ UNCHANGED << queues, counters, request_queue, intake, task,
                    submitted, denied, nincr, ndecr, nfetch, preset >>

----------------------------------------------------------------------------
Next ==
    \/ \E e \in Entries, q \in Queues, req \in Requests :
          SubmitRequest(e, q, req) /\ UNCHANGED rvars
    \/ \E w \in Workers, q \in Queues :
          RequestRedisHandlerBRPOP(w, q) /\ UNCHANGED rvars
    \/ \E w \in Workers : RequestRedisHandlerPut(w) /\ UNCHANGED rvars
    \/ \E w \in Workers : RequestToroHandlerGet(w) /\ UNCHANGED rvars
    \/ \E e \in Entries : RequestToroHandlerCheck(e) /\ UNCHANGED rvars
    \/ \E e \in Entries : RequestToroHandlerRequeue(e) /\ UNCHANGED rvars
    \/ \E e \in Entries : ProcessRequestIncr(e) /\ UNCHANGED rvars
    \/ \E e \in Entries, ok \in BOOLEAN :
          ProcessRequestBody(e, ok) /\ UNCHANGED rvars
    \/ \E e \in Entries, ok \in BOOLEAN, r \in BackendResponses :
          ProcessRequestFetch(e, ok, r) /\ UNCHANGED rvars
    \/ \E e \in Entries : FinalizeRequestDecr(e) /\ UNCHANGED rvars
    \/ \E e \in Entries : FinalizeRequestPublish(e) /\ UNCHANGED rvars

Spec == Init /\ [][Next]_vars

(* The intake coroutine alone, while no handler takes entries from the     *)
(* local buffer: requests without keys are submitted on q1 and polled.     *)
InitIntake == InitWith(IntakeEntries)

NextIntake ==
    \/ \E e \in Entries :
          /\ SubmitRequest(e, "q1", [path |-> "/baz", body_link |-> Nil])
          /\ UNCHANGED rvars
    \/ \E w \in Workers :
          RequestRedisHandlerBRPOP(w, "q1") /\ UNCHANGED rvars
    \/ \E w \in Workers : RequestRedisHandlerPut(w) /\ UNCHANGED rvars

SpecIntake == InitIntake /\ [][NextIntake]_vars

----------------------------------------------------------------------------
(* Derived notions used by the properties *)

\* the limit keys of the request the ingress submitted as e
KeysOf(e) ==
    ApplicableKeys(
        unserialize_request_message(submitted[e][2], "localhost:8082").request)

\* e has been admitted (Limits.check gave its hashes) and its DECR pipeline
\* has not run yet
Admitted(e) == pc[e] \in {"incr", "body", "fetch", "decr"}

\* the requests admitted and not released that hold key k
InFlight(k) == { e \in Entries : Admitted(e) /\ k \in task[e].hashes.keys }

\* INCRs minus DECRs issued on k for the requests 1..n
RECURSIVE NetUpTo(_, _)
NetUpTo(n, k) ==
    IF n = 0 THEN 0 ELSE nincr[n][k] - ndecr[n][k] + NetUpTo(n - 1, k)

Net(k) == NetUpTo(Cardinality(Entries), k)

\* the copies of request e that exist: in the source queues, in the hands
\* of the intake coroutine, in the local buffers, in a handler
RECURSIVE CountIn(_, _)
CountIn(list, e) ==
    IF list = <<>> THEN 0
    ELSE (IF Head(list)[4][2] = e THEN 1 ELSE 0) + CountIn(Tail(list), e)

RECURSIVE CountInBuffer(_, _)
CountInBuffer(buf, e) ==
    IF buf = <<>> THEN 0
    ELSE (IF Head(buf)[2][4][2] = e THEN 1 ELSE 0)
         + CountInBuffer(Tail(buf), e)

RECURSIVE SumOver(_, _)
SumOver(S, f) ==
    IF S = {} THEN 0
    ELSE LET x == CHOOSE y \in S : TRUE
         IN  f[x] + SumOver(S \ {x}, f)

Copies(e) ==
    SumOver(Queues, [q \in Queues |-> CountIn(queues[q], e)])
    + SumOver(Workers,
              [w \in Workers |-> CountInBuffer(request_queue[w], e)])
    + SumOver(Workers,
              [w \in Workers |->
                 IF intake[w].request # <<>> /\ intake[w].request[2][4][2] = e
                 THEN 1 ELSE 0])
    + (IF pc[e] # "idle" THEN 1 ELSE 0)

----------------------------------------------------------------------------
(* C1: for a key limited to N, the requests admitted and not yet released  *)
(* for that key never number more than N.                                  *)
C1_AdmissionBound ==
    \A k \in AllKeys : Cardinality(InFlight(k)) <= KeyMax(k)

(* C2: every key of an admitted request is incremented once and            *)
(* decremented once, whether its fetches succeed or fail; a counter always *)
(* holds its initial value plus the INCRs not yet matched by a DECR, so a  *)
(* completed request leaves each of its counters as it found it.           *)
C2_CounterConservation ==
    /\ \A e \in Entries, k \in AllKeys :
          /\ nincr[e][k] <= 1
          /\ ndecr[e][k] <= nincr[e][k]
          /\ pc[e] = "done" =>
                /\ nincr[e][k] = (IF k \in KeysOf(e) THEN 1 ELSE 0)
                /\ ndecr[e][k] = nincr[e][k]
    /\ \A k \in AllKeys : counters[k] = preset[k] + Net(k)

\* a request with keys whose body link fetch failed has completed, and the
\* counters, preset to 1, are back to 1
C2_Witness ==
    \E e \in Entries :
        /\ pc[e] = "done"
        /\ KeysOf(e) # {}
        /\ nfetch[e] = [body |-> 1, backend |-> 0]
        /\ \A k \in KeysOf(e) : nincr[e][k] = 1 /\ preset[k] = 1
        /\ counters = preset

(* C3: on denial the handler pushes back, on the queue the request came    *)
(* from, exactly the serialized request that was submitted there.          *)
C3_RequeueVerbatim ==
    [][ \A e \in Entries :
          (pc[e] = "requeue" /\ pc'[e] # "requeue") =>
             queues' = [queues EXCEPT
                 ![submitted[e][1]] = << submitted[e][2] >> \o @] ]_vars

\* a request submitted on q2 was denied and is back on q2, unchanged
C3_Witness ==
    \E e \in Entries :
        /\ denied[e]
        /\ pc[e] = "idle"
        /\ submitted[e][1] = "q2"
        /\ queues["q2"] # <<>>
        /\ Head(queues["q2"]) = submitted[e][2]

(* C4: the handling of a denied request issues no fetch, no INCR, no DECR  *)
(* and publishes nothing: the steps of a denial leave the counters, the    *)
(* response keys and the fetch and INCR/DECR records as they are.          *)
C4_DenialIsInert ==
    [][ \A e \in Entries :
          (\/ pc[e] = "check" /\ pc'[e] = "requeue"
           \/ pc[e] = "requeue" /\ pc'[e] # "requeue") =>
             /\ counters' = counters
             /\ responses' = responses
             /\ nfetch' = nfetch
             /\ nincr' = nincr
             /\ ndecr' = ndecr ]_vars

\* a denied request is back in its queue with a counter at its limit and
\* nothing fetched, counted or published for it
C4_Witness ==
    \E e \in Entries :
        /\ denied[e]
        /\ pc[e] = "idle"
        /\ \E k \in KeysOf(e) : counters[k] >= KeyMax(k)
        /\ nfetch[e] = [body |-> 0, backend |-> 0]
        /\ \A k \in AllKeys : nincr[e][k] = 0 /\ ndecr[e][k] = 0
        /\ responses[e] = <<>>

(* C5: when the backend fetch or the body link fetch of an admitted        *)
(* request fails, a response is still pushed to its response key and its   *)
(* counters are released.                                                  *)
C5_FailurePublished ==
    \A e \in Entries :
        (pc[e] = "done" /\ ~task[e].result.ok) =>
            /\ Len(responses[e]) = 1
            /\ \A k \in AllKeys : ndecr[e][k] = nincr[e][k]

(* C6: a request gets at most one response on its response key; each       *)
(* handling either requeues it or dispatches it, so exactly one copy of a  *)
(* submitted request exists; a response is there only once finalize_request *)
(* has ended, and a request whose fetches succeeded has exactly one.       *)
C6_AtMostOneResponse ==
    \A e \in Entries :
        /\ Len(responses[e]) <= 1
        /\ Copies(e) = (IF submitted[e] = <<>> THEN 0 ELSE 1)
        /\ responses[e] # <<>> => pc[e] = "done"
        /\ (pc[e] = "done" /\ task[e].result.ok) => Len(responses[e]) = 1

\* a request that was denied and requeued, later admitted, has one response
C6_Witness ==
    \E e \in Entries :
        denied[e] /\ pc[e] = "done" /\ Len(responses[e]) = 1

(* C7: a request no limit applies to is never denied, whatever the         *)
(* counters hold, is dispatched to the backend, causes no INCR and no DECR, *)
(* and the response the backend gave is the one pushed to its key.         *)
C7_NoLimitAdmitted ==
    \A e \in Entries :
        (submitted[e] # <<>> /\ KeysOf(e) = {}) =>
            /\ ~denied[e]
            /\ pc[e] \notin {"requeue", "incr", "decr"}
            /\ \A k \in AllKeys : nincr[e][k] = 0 /\ ndecr[e][k] = 0
            /\ pc[e] \in {"fetch", "publish", "done"} =>
                  nfetch[e].backend = 1
            /\ (pc[e] = "done" /\ task[e].result.ok) =>
                  /\ task[e].result \in
                        { [ok |-> TRUE, code |-> r.code, body |-> r.body] :
                            r \in BackendResponses }
                  /\ responses[e] =
                        << << "status_code", task[e].result.code,
                              "body", task[e].result.body >> >>

\* with a counter at its limit, a request without keys has its 200 "bar"
\* on its response key
C7_Witness ==
    \E e \in Entries :
        /\ submitted[e] # <<>>
        /\ KeysOf(e) = {}
        /\ \E k \in AllKeys : counters[k] >= KeyMax(k)
        /\ responses[e] = << << "status_code", 200, "body", "bar" >> >>

(* C8: when the response of a request is on its response key, every one of *)
(* its counters has been decremented; if no other request holds an INCR on *)
(* a key, that counter is back at its initial value.                       *)
C8_ReleaseBeforePublish ==
    \A e \in Entries :
        responses[e] # <<>> =>
            \A k \in KeysOf(e) :
                /\ nincr[e][k] = 1
                /\ ndecr[e][k] = 1
                /\ (\A d \in Entries \ {e} : nincr[d][k] = ndecr[d][k]) =>
                      counters[k] = preset[k]

\* the response of a request with keys is published, another request
\* holding the same key is still in flight
C8_Witness ==
    \E e \in Entries :
        /\ responses[e] # <<>>
        /\ KeysOf(e) # {}
        /\ \E d \in Entries \ {e}, k \in KeysOf(e) :
              nincr[d][k] = 1 /\ ndecr[d][k] = 0

(* C9: a BRPOP that times out puts nothing on the local buffer; a BRPOP    *)
(* that pops an entry removes exactly that entry from the source queue and *)
(* puts one item on the local buffer, made of the name of that queue and   *)
(* of the serialized request as it was submitted to that queue.            *)
C9_Intake ==
    [][ \A w \in Workers :
          /\ (intake[w].pc = "idle" /\ intake'[w].pc = "reply") =>
                /\ request_queue' = request_queue
                /\ \/ intake'[w].request = <<>> /\ queues' = queues
                   \/ \E q \in Queues :
                         /\ queues[q] # <<>>
                         /\ queues[q] = queues'[q] \o << Last(queues[q]) >>
                         /\ \A o \in Queues \ {q} : queues'[o] = queues[o]
                         /\ intake'[w].request = << q, Last(queues[q]) >>
          /\ (intake[w].pc = "reply" /\ intake'[w].pc = "idle") =>
                IF intake[w].request = <<>>
                THEN request_queue' = request_queue
                ELSE /\ request_queue' = [request_queue EXCEPT
                           ![w] = Append(@, intake[w].request)]
                     /\ \E e \in Entries :
                           submitted[e] = intake[w].request ]_vars

\* the local buffer holds an entry popped from q2, as submitted, and a
\* later BRPOP has timed out
C9_Witness ==
    \E w \in Workers, e \in Entries :
        /\ request_queue[w] = << submitted[e] >>
        /\ submitted[e][1] = "q2"
        /\ intake[w] = [pc |-> "reply", request |-> <<>>]

(* C10: the local buffer never holds more entries than the configured      *)
(* capacity, and the intake pops nothing from a source queue while the     *)
(* local buffer is full.                                                   *)
C10_Backpressure ==
    [][ \A w \in Workers :
          /\ Len(request_queue'[w]) <= DEFAULT_LOCAL_QUEUE_MAX_SIZE
          /\ (/\ Len(request_queue[w]) >= DEFAULT_LOCAL_QUEUE_MAX_SIZE
              /\ intake[w].pc = "idle"
              /\ intake'[w].pc = "reply") => queues' = queues ]_vars

----------------------------------------------------------------------------
(* The rule engine of the front end, src/thr/http2redis/rules.py.          *)
(*                                                                         *)
(* Python values.  A value is a record of its type and its text; a string  *)
(* is the sequence of its characters, so that a pattern can be matched     *)
(* against it.                                                             *)

PyStr(chars) == [t |-> "str", v |-> chars]

PyNone == [t |-> "NoneType", v |-> << >>]

PyTrue == [t |-> "bool", v |-> << "True" >>]

PyFalse == [t |-> "bool", v |-> << "False" >>]

PyInt(digits) == [t |-> "int", v |-> digits]

PyZero == PyInt(<< "0" >>)

\* a tuple of one-character strings
PyTuple(chars) == [t |-> "tuple", v |-> chars]

PyEmptyTuple == PyTuple(<< >>)

PyBool(b) == IF b THEN PyTrue ELSE PyFalse

\* bool(value) is False
Falsy(value) ==
    \/ value \in { PyNone, PyFalse, PyZero, PyEmptyTuple }
    \/ value = PyStr(<< >>)

\* a == b
PyEq(a, b) ==
    \/ a = b
    \/ { a, b } = { PyZero, PyFalse }

(* What a rule is configured with: a literal value, a glob pattern, a list *)
(* of those, or a callable.                                                *)

Literal(value) == [kind |-> "literal", v |-> value, items |-> << >>, f |-> ""]

Glob(pattern) ==
    [kind |-> "glob", v |-> PyStr(pattern), items |-> << >>, f |-> ""]

List(items) == [kind |-> "list", v |-> PyNone, items |-> items, f |-> ""]

Callable(f) == [kind |-> "callable", v |-> PyNone, items |-> << >>, f |-> f]

\* callable(obj)
callable(obj) == obj.kind = "callable"

\* bool(obj) is False
NotTruthy(obj) ==
    CASE obj.kind = "literal" -> Falsy(obj.v)
      [] obj.kind = "list" -> obj.items = << >>
      [] OTHER -> FALSE

\* thr.utils.glob.match: "*" stands for any run of characters, "?" for one
RECURSIVE GlobMatch(_, _)
GlobMatch(pattern, string) ==
    IF pattern = << >> THEN string = << >>
    ELSE IF Head(pattern) = "*"
         THEN \/ GlobMatch(Tail(pattern), string)
              \/ string # << >> /\ GlobMatch(pattern, Tail(string))
    ELSE /\ string # << >>
         /\ Head(pattern) \in { "?", Head(string) }
         /\ GlobMatch(Tail(pattern), Tail(string))

(* The exchange.  Names are kept as the sequences of their segments        *)
(* between underscores: set_output_header is << "set", "output", "header" >>. *)

HTTPExchangeDir ==
    << << "get", "method" >>, << "get", "path" >>,
       << "set", "input", "header" >>, << "set", "output", "header" >>,
       << "set", "path" >>, << "set", "redis", "queue" >>,
       << "set", "status", "code" >> >>

Range(seq) == { seq[i] : i \in DOMAIN seq }

\* matched_rules of a new exchange is None
NoMatchedRules == [is_none |-> TRUE, rules |-> << >>]

NewExchange(path, method) ==
    [path |-> PyStr(path), method |-> PyStr(method),
     input_header |-> PyNone, output_header |-> PyNone,
     redis_queue |-> PyNone, status_code |-> PyNone,
     matched_rules |-> NoMatchedRules]

\* getattr(exchange, "get_%s" % name)()
Get(ex, name) ==
    CASE name = << "method" >> -> ex.method
      [] name = << "path" >> -> ex.path

\* getattr(exchange, action_name)(value)
Set(ex, action_name, value) ==
    CASE action_name = << "set", "input", "header" >> ->
             [ex EXCEPT !.input_header = value]
      [] action_name = << "set", "output", "header" >> ->
             [ex EXCEPT !.output_header = value]
      [] action_name = << "set", "path" >> -> [ex EXCEPT !.path = value]
      [] action_name = << "set", "redis", "queue" >> ->
             [ex EXCEPT !.redis_queue = value]
      [] action_name = << "set", "status", "code" >> ->
             [ex EXCEPT !.status_code = value]

(* The callables the rules of the model are configured with.  A call       *)
(* raises, or returns a value, or returns a Future that is done or         *)
(* pending; a custom action changes the exchange itself.                   *)

Returns(value, ex) ==
    [raises |-> FALSE, future |-> "no", value |-> value, exchange |-> ex]

ReturnsFuture(state, value, ex) ==
    [raises |-> FALSE, future |-> state, value |-> value, exchange |-> ex]

Raises(ex) ==
    [raises |-> TRUE, future |-> "no", value |-> PyNone, exchange |-> ex]

Call(f, ex) ==
    CASE f = "ret_true" -> Returns(PyTrue, ex)
      [] f = "ret_false" -> Returns(PyFalse, ex)
      [] f = "ret_none" -> Returns(PyNone, ex)
      [] f = "ret_zero" -> Returns(PyZero, ex)
      [] f = "is_get" ->
             Returns(PyBool(ex.method = PyStr(<< "G", "E", "T" >>)), ex)
      [] f = "path_is_b" ->
             Returns(PyBool(ex.path = PyStr(<< "/", "b" >>)), ex)
      [] f = "boom" -> Raises(ex)
      [] f = "queue_q" -> Returns(PyStr(<< "q" >>), ex)
      [] f = "done_r" -> ReturnsFuture("done", PyStr(<< "r" >>), ex)
      [] f = "later_s" -> ReturnsFuture("pending", PyStr(<< "s" >>), ex)
      [] f = "later_t" -> ReturnsFuture("pending", PyStr(<< "t" >>), ex)
      [] f = "later_b" ->
             ReturnsFuture("pending", PyStr(<< "/", "b" >>), ex)
      [] f = "go_to_b" ->
             Returns(PyNone, [ex EXCEPT !.path = PyStr(<< "/", "b" >>)])

----------------------------------------------------------------------------
(* class Criteria.  The keyword arguments are kept as the sequence of      *)
(* their (name, value) pairs, in the order the dictionary yields them.     *)

criterion_names ==
    { Tail(name) : name \in
        { n \in Range(HTTPExchangeDir) :
            /\ Head(n) = "get"
            /\ ~(Len(n) >= 2 /\ n[2] = "custom") } }

IsCriterion(kv) == kv[1] \in criterion_names \/ kv[1] = << "custom" >>

\* Criteria.__init__
CriteriaInit(kwargs) == SelectSeq(kwargs, IsCriterion)

\* Criteria.eval_single_criterion_value
eval_single_criterion_value(criterion, value) ==
    IF criterion.kind = "glob"
    THEN GlobMatch(criterion.v.v, value.v)
    ELSE criterion.kind = "literal" /\ PyEq(value, criterion.v)

\* isinstance(criterion, (list, tuple)) and the elements of criterion
IsListOrTuple(obj) ==
    \/ obj.kind = "list"
    \/ obj.kind = "literal" /\ obj.v.t = "tuple"

Elements(obj) ==
    IF obj.kind = "list" THEN obj.items
    ELSE [i \in DOMAIN obj.v.v |-> Literal(PyStr(<< obj.v.v[i] >>))]

\* Criteria.check_exchange_attribute
check_exchange_attribute(ex, name, criterion) ==
    LET value == Get(ex, name)
    IN  IF IsListOrTuple(criterion)
        THEN \E i \in DOMAIN Elements(criterion) :
                 eval_single_criterion_value(Elements(criterion)[i], value)
        ELSE eval_single_criterion_value(criterion, value)

MatchResult(raises, match) == [raises |-> raises, match |-> match]

\* the test "tmp is False" on what the custom callback returned
CustomIsFalse(r) == r.future = "no" /\ r.value = PyFalse

\* Criteria.match, from the i-th criterion on
RECURSIVE MatchFrom(_, _, _)
MatchFrom(criteria, i, ex) ==
    IF i > Len(criteria) THEN MatchResult(FALSE, TRUE)
    ELSE LET name == criteria[i][1]
             criterion == criteria[i][2]
         IN  IF name # << "custom" >>
             THEN IF ~check_exchange_attribute(ex, name, criterion)
                  THEN MatchResult(FALSE, FALSE)
                  ELSE MatchFrom(criteria, i + 1, ex)
             ELSE IF ~callable(criterion)
                  THEN MatchResult(TRUE, FALSE)
             ELSE LET r == Call(criterion.f, ex)
                  IN  IF r.raises THEN MatchResult(TRUE, FALSE)
                      ELSE IF CustomIsFalse(r)
                           THEN MatchResult(FALSE, FALSE)
                      ELSE MatchFrom(criteria, i + 1, ex)

match(criteria, ex) == MatchFrom(criteria, 1, ex)

(* A specification of Criteria.match alone: a Criteria is constructed from *)
(* keyword arguments and matched against an exchange.                      *)

MaxCriteria == 3

Paths == { << "/", "a" >>, << "/", "b" >>, << "/", "a", "b" >> }

Methods == { << "G", "E", "T" >>, << "P", "O", "S", "T" >> }

Exchanges == { NewExchange(p, m) : p \in Paths, m \in Methods }

CriteriaPool ==
    ({ << "path" >> } \X
        { Literal(PyStr(<< "/", "a" >>)), Glob(<< "/", "a", "*" >>),
          Glob(<< "/", "?" >>),
          List(<< Literal(PyStr(<< "/", "a" >>)), Glob(<< "*", "b" >>) >>),
          List(<< >>) })
    \cup ({ << "method" >> } \X
        { Literal(PyStr(<< "G", "E", "T" >>)), Literal(PyTuple(<< >>)),
          List(<< Literal(PyStr(<< "G", "E", "T" >>)),
                  Literal(PyStr(<< "P", "O", "S", "T" >>)) >>) })
    \cup ({ << "custom" >> } \X
        { Callable("ret_true"), Callable("ret_false"), Callable("ret_none"),
          Callable("ret_zero"), Callable("is_get"), Callable("boom"),
          Literal(PyStr(<< "x" >>)) })
    \cup ({ << "colour" >> } \X { Literal(PyStr(<< "x" >>)) })

\* keyword arguments: no name twice
KwargsOver(pool, n) ==
    { kw \in UNION { [1..k -> pool] : k \in 0..n } :
        \A i, j \in DOMAIN kw : kw[i][1] = kw[j][1] => i = j }

dvars == << queues, counters, responses, request_queue, intake, pc, task,
            submitted, denied, nincr, ndecr, nfetch, preset >>

\* the worker is not part of the specifications of the rule engine
DispatchUnused == DispatchInit(0) /\ preset = [k \in AllKeys |-> 0]

InitCriteria ==
    /\ DispatchUnused
    /\ exchange \in Exchanges
    /\ \E kwargs \in KwargsOver(CriteriaPool, MaxCriteria) :
          cframe = [kwargs |-> kwargs, criteria |-> CriteriaInit(kwargs),
                    pc |-> "call", result |-> MatchResult(FALSE, FALSE)]
    /\ ruleset = << >>
    /\ rframe = << >>
    /\ aframe = << >>
    /\ rlog = << >>

\* criteria.match(exchange)
CriteriaMatch ==
    /\ cframe.pc = "call"
    /\ cframe' = [cframe EXCEPT !.pc = "done",
                                !.result = match(cframe.criteria, exchange)]
    /\ UNCHANGED << dvars, exchange, ruleset, rframe, aframe, rlog >>

NextCriteria == CriteriaMatch

SpecCriteria == InitCriteria /\ [][NextCriteria]_vars

\* a criterion holds: an attribute criterion when the attribute matches it,
\* or one of its elements when it is a list, and a custom predicate when it
\* returns a true value
Holds(kv, ex) ==
    IF kv[1] = << "custom" >>
    THEN /\ callable(kv[2])
         /\ ~Call(kv[2].f, ex).raises
         /\ ~Falsy(Call(kv[2].f, ex).value)
    ELSE IF IsListOrTuple(kv[2])
         THEN \E i \in DOMAIN Elements(kv[2]) :
                  eval_single_criterion_value(Elements(kv[2])[i],
                                              Get(ex, kv[1]))
         ELSE eval_single_criterion_value(kv[2], Get(ex, kv[1]))

Returned == cframe.pc = "done" /\ ~cframe.result.raises

\* C13: whenever Criteria.match returns, it returns true exactly when every
\* configured criterion holds (a list when one of its elements matches, a
\* custom predicate when it returns a true value); an empty Criteria matches
C13_MatchIffAllHold ==
    Returned =>
        (cframe.result.match <=>
            \A i \in DOMAIN cframe.criteria :
                Holds(cframe.criteria[i], exchange))

----------------------------------------------------------------------------
(* class Actions.  The keyword arguments are looked up by name.            *)

\* self.actions.get(action_name)
ActionsGet(actions, action_name) ==
    IF \E i \in DOMAIN actions : actions[i][1] = action_name
    THEN actions[CHOOSE i \in DOMAIN actions : actions[i][1] = action_name][2]
    ELSE Literal(PyNone)

\* Actions.is_output_action_name: the name ends with "_output" or holds
\* "_output_"
is_output_action_name_EndsWith(action_name) ==
    Len(action_name) >= 2 /\ action_name[Len(action_name)] = "output"

is_output_action_name(action_name) ==
    \/ Len(action_name) >= 2 /\ action_name[Len(action_name)] = "output"
    \/ \E i \in 2..(Len(action_name) - 1) : action_name[i] = "output"

\* Actions.is_custom_action_name
is_custom_action_name(action_name) ==
    Len(action_name) >= 2 /\ Head(action_name) = "custom"

IsActionName(name) == Len(name) >= 2 /\ Head(name) \in { "set", "add", "del" }

\* the catalog: the set_, add_ and del_ methods of the exchange in the order
\* of dir(), then the two custom names
action_names ==
    SelectSeq(HTTPExchangeDir, IsActionName)
        \o << << "custom", "input" >>, << "custom", "output" >> >>

IsInputActionName(name) == ~is_output_action_name(name)

output_action_names == SelectSeq(action_names, is_output_action_name)

input_action_names == SelectSeq(action_names, IsInputActionName)

Event(ev, rule, name, value) ==
    [ev |-> ev, rule |-> rule, name |-> name, value |-> value]

\* Actions.__init__: the frame of an Actions that is not executing
ActionsInit(kwargs) ==
    [actions |-> kwargs, pc |-> "idle", mode |-> "", rule |-> 0, i |-> 0,
     action_names |-> << >>, futures |-> << >>, result_dict |-> << >>]

\* Actions._execute(exchange, mode) up to the first loop
ActionsEnter(frame, mode, rule) ==
    IF mode \notin { "input", "output" }
    THEN [frame EXCEPT !.pc = "raised", !.mode = mode, !.rule = rule]
    ELSE [frame EXCEPT
            !.pc = "resolve", !.mode = mode, !.rule = rule, !.i = 1,
            !.action_names = IF mode = "output" THEN output_action_names
                             ELSE input_action_names,
            !.futures = << >>, !.result_dict = << >>]

\* one turn of the first loop: the value of an action is taken or computed
ActionsResolve ==
    /\ aframe.pc = "resolve"
    /\ aframe.i <= Len(aframe.action_names)
    /\ LET action_name == aframe.action_names[aframe.i]
           action == ActionsGet(aframe.actions, action_name)
           next == [aframe EXCEPT !.i = @ + 1]
       IN  IF NotTruthy(action)
           THEN /\ aframe' = next
                /\ UNCHANGED << exchange, rlog >>
           ELSE IF callable(action)
           THEN LET r == Call(action.f, exchange)
                    called == Event("call", aframe.rule, action_name, PyNone)
                IN  /\ exchange' = r.exchange
                    /\ IF r.raises
                       THEN /\ aframe' = [aframe EXCEPT !.pc = "raised"]
                            /\ rlog' = rlog \o << called,
                                  Event("raise", aframe.rule, action_name,
                                        PyNone) >>
                       ELSE /\ rlog' = Append(rlog, called)
                            /\ IF r.future = "pending"
                               THEN aframe' = [next EXCEPT !.futures =
                                       (action_name :>
                                          [done |-> FALSE, value |-> r.value])
                                       @@ @]
                               ELSE aframe' = [next EXCEPT !.result_dict =
                                       (action_name :> r.value) @@ @]
           ELSE IF is_custom_action_name(action_name)
           THEN /\ aframe' = [aframe EXCEPT !.pc = "raised"]
                /\ rlog' = Append(rlog, Event("raise", aframe.rule,
                                              action_name, PyNone))
                /\ UNCHANGED exchange
           ELSE /\ aframe' = [next EXCEPT !.result_dict =
                                 (action_name :> action.v) @@ @]
                /\ UNCHANGED << exchange, rlog >>

\* the end of the first loop: with pending futures the coroutine waits for
\* all of them
ActionsYield ==
    /\ aframe.pc = "resolve"
    /\ aframe.i > Len(aframe.action_names)
    /\ aframe' = [aframe EXCEPT
                    !.pc = IF DOMAIN aframe.futures = {} THEN "apply"
                           ELSE "wait",
                    !.i = 1]
    /\ UNCHANGED << exchange, rlog >>

\* a pending future completes
FutureDone_ApplyOnCompletion(action_name) ==
    /\ aframe.pc = "wait"
    /\ action_name \in DOMAIN aframe.futures
    /\ ~aframe.futures[action_name].done
    /\ aframe' = [aframe EXCEPT !.futures[action_name].done = TRUE]
    /\ rlog' = rlog \o
          << Event("done", aframe.rule, action_name,
                   aframe.futures[action_name].value),
             Event("set", aframe.rule, action_name,
                   aframe.futures[action_name].value) >>
    /\ exchange' = Set(exchange, action_name,
                       aframe.futures[action_name].value)

FutureDone(action_name) ==
    /\ aframe.pc = "wait"
    /\ action_name \in DOMAIN aframe.futures
    /\ ~aframe.futures[action_name].done
    /\ aframe' = [aframe EXCEPT !.futures[action_name].done = TRUE]
    /\ rlog' = Append(rlog, Event("done", aframe.rule, action_name,
                                  aframe.futures[action_name].value))
    /\ UNCHANGED exchange

\* every future is done: their results join the others
ActionsGather ==
    /\ aframe.pc = "wait"
    /\ \A n \in DOMAIN aframe.futures : aframe.futures[n].done
    /\ aframe' = [aframe EXCEPT
                    !.pc = "apply",
                    !.result_dict =
                        [n \in DOMAIN aframe.futures |->
                            aframe.futures[n].value] @@ @]
    /\ UNCHANGED << exchange, rlog >>

\* one turn of the second loop: the value of an action is given to its
\* setter
ActionsApply ==
    /\ aframe.pc = "apply"
    /\ aframe.i <= Len(aframe.action_names)
    /\ LET action_name == aframe.action_names[aframe.i]
           action == ActionsGet(aframe.actions, action_name)
           next == [aframe EXCEPT !.i = @ + 1]
       IN  IF action = Literal(PyNone) \/ is_custom_action_name(action_name)
           THEN /\ aframe' = next
                /\ UNCHANGED << exchange, rlog >>
           ELSE IF action_name \notin DOMAIN aframe.result_dict
           THEN /\ aframe' = [aframe EXCEPT !.pc = "raised"]
                /\ rlog' = Append(rlog, Event("raise", aframe.rule,
                                              action_name, PyNone))
                /\ UNCHANGED exchange
           ELSE LET value == aframe.result_dict[action_name]
                IN  /\ aframe' = next
                    /\ IF value # PyNone
                       THEN /\ exchange' = Set(exchange, action_name, value)
                            /\ rlog' = Append(rlog,
                                  Event("set", aframe.rule, action_name,
                                        value))
                       ELSE UNCHANGED << exchange, rlog >>

\* the end of the second loop
ActionsReturn_WithoutWaiting ==
    /\ \/ aframe.pc = "wait"
       \/ aframe.pc = "apply" /\ aframe.i > Len(aframe.action_names)
    /\ aframe' = [aframe EXCEPT !.pc = "done"]
    /\ UNCHANGED << exchange, rlog >>

ActionsReturn ==
    /\ aframe.pc = "apply"
    /\ aframe.i > Len(aframe.action_names)
    /\ aframe' = [aframe EXCEPT !.pc = "done"]
    /\ UNCHANGED << exchange, rlog >>

(* A specification of Actions alone: an Actions is constructed from        *)
(* keyword arguments and executed once on an exchange.                     *)

MaxActions == 3

Modes == { "input", "output", "other" }

ActionsPool ==
    ({ << "set", "input", "header" >> } \X
        { Literal(PyTuple(<< "h", "v" >>)), Literal(PyEmptyTuple),
          Callable("later_s") })
    \cup ({ << "set", "output", "header" >> } \X
        { Literal(PyTuple(<< "h", "v" >>)), Callable("done_r"),
          Callable("later_t") })
    \cup ({ << "set", "path" >> } \X
        { Literal(PyStr(<< "/", "b" >>)), Literal(PyStr(<< >>)),
          Callable("later_t") })
    \cup ({ << "set", "redis", "queue" >> } \X
        { Literal(PyStr(<< "q" >>)), Callable("queue_q"),
          Callable("ret_none"), Callable("boom") })
    \cup ({ << "set", "status", "code" >> } \X
        { Literal(PyInt(<< "2", "0", "0" >>)), Literal(PyZero) })
    \cup ({ << "custom", "input" >> } \X
        { Callable("go_to_b"), Literal(PyStr(<< "x" >>)), Literal(PyZero) })
    \cup ({ << "custom", "output" >> } \X
        { Callable("ret_none"), Literal(PyStr(<< "x" >>)) })
    \cup ({ << "frobnicate" >>, << "output", "paint" >> } \X
        { Literal(PyStr(<< "x" >>)), Callable("boom") })

\* the names the keyword arguments of the model are given in
KwargNames ==
    action_names \o << << "frobnicate" >>, << "output", "paint" >> >>

Rank(name) == CHOOSE i \in DOMAIN KwargNames : KwargNames[i] = name

ActionsKwargs ==
    { kw \in KwargsOver(ActionsPool, MaxActions) :
        \A i, j \in DOMAIN kw : i < j => Rank(kw[i][1]) < Rank(kw[j][1]) }

InitActions ==
    /\ DispatchUnused
    /\ exchange = NewExchange(<< "/", "a" >>, << "G", "E", "T" >>)
    /\ \E kwargs \in ActionsKwargs :
          aframe = [ActionsInit(kwargs) EXCEPT !.pc = "new"]
    /\ ruleset = << >>
    /\ rframe = << >>
    /\ rlog = << >>
    /\ cframe = << >>

\* Actions(**kwargs)
ActionsConstruct ==
    /\ aframe.pc = "new"
    /\ aframe' = ActionsInit(aframe.actions)
    /\ UNCHANGED << exchange, rlog >>

\* actions._execute(exchange, mode) is called
ActionsExecute(mode) ==
    /\ aframe.pc = "idle"
    /\ aframe' = ActionsEnter(aframe, mode, 0)
    /\ UNCHANGED << exchange, rlog >>

NotOfActions == << dvars, ruleset, rframe, cframe >>

NextActions ==
    \/ ActionsConstruct /\ UNCHANGED NotOfActions
    \/ \E mode \in Modes : ActionsExecute(mode) /\ UNCHANGED NotOfActions
    \/ ActionsResolve /\ UNCHANGED NotOfActions
    \/ ActionsYield /\ UNCHANGED NotOfActions
    \/ \E n \in Range(action_names) : FutureDone(n) /\ UNCHANGED NotOfActions
    \/ ActionsGather /\ UNCHANGED NotOfActions
    \/ ActionsApply /\ UNCHANGED NotOfActions
    \/ ActionsReturn /\ UNCHANGED NotOfActions

SpecActions == InitActions /\ [][NextActions]_vars

\* the configured custom actions that are not callable
BadCustom(actions) ==
    { i \in DOMAIN actions :
        is_custom_action_name(actions[i][1]) /\ ~callable(actions[i][2]) }

\* C14: an Actions constructed with a custom_input or custom_output that is
\* not callable is in error once constructed, before it is executed on any
\* exchange
C14_DefinitionError ==
    (aframe.pc # "new" /\ BadCustom(aframe.actions) # {}) =>
        (aframe.pc = "raised" /\ aframe.mode = "")

(* What the claims about Actions speak of.                                 *)

\* the action belongs to the catalog
Recognized(name) == name \in Range(action_names)

\* the name has "output" as a segment after the first one
OutputMarked(name) == \E i \in 2..Len(name) : name[i] = "output"

\* the action belongs to the phase
OfPhase(name, mode) ==
    IF OutputMarked(name) THEN mode = "output" ELSE mode = "input"

Finished == aframe.pc \in { "done", "raised" } /\ aframe.mode # "other"

\* the recognized non-custom actions of the phase configured with a literal
LiteralActions(actions, mode) ==
    { i \in DOMAIN actions :
        /\ Recognized(actions[i][1])
        /\ ~is_custom_action_name(actions[i][1])
        /\ OfPhase(actions[i][1], mode)
        /\ actions[i][2].kind = "literal" }

OnlyLiterals(actions) ==
    \A i \in DOMAIN actions :
        /\ actions[i][2].kind = "literal"
        /\ ~is_custom_action_name(actions[i][1])

Applied(name, value) ==
    \E k \in DOMAIN rlog :
        rlog[k].ev = "set" /\ rlog[k].name = name /\ rlog[k].value = value

\* C17: when an Actions configured with literal values only has been
\* executed for a phase, it has completed without error and every recognized
\* non-custom action of the phase has had its literal applied by its setter
C17_LiteralApplied ==
    (Finished /\ OnlyLiterals(aframe.actions)) =>
        /\ aframe.pc = "done"
        /\ \A i \in LiteralActions(aframe.actions, aframe.mode) :
              Applied(aframe.actions[i][1], aframe.actions[i][2].v)

CatalogIndex(name) == CHOOSE i \in DOMAIN action_names : action_names[i] = name

\* the callables of the phase
CallableActions(actions, mode) ==
    { i \in DOMAIN actions :
        /\ Recognized(actions[i][1])
        /\ OfPhase(actions[i][1], mode)
        /\ callable(actions[i][2]) }

Called(name) ==
    \E k \in DOMAIN rlog : rlog[k].ev = "call" /\ rlog[k].name = name

SomeSet == \E k \in DOMAIN rlog : rlog[k].ev = "set"

\* C15: in one execution of an Actions no callable is invoked and no future
\* completes after a setter has been applied, a setter is applied only when
\* every callable of the phase has been invoked and every future is done,
\* and the setters are applied in the order of the catalog
C15_ResolveBeforeApply ==
    /\ \A j, k \in DOMAIN rlog :
          (j < k /\ rlog[j].ev = "set") =>
              /\ rlog[k].ev \notin { "call", "done" }
              /\ rlog[k].ev = "set" =>
                    CatalogIndex(rlog[j].name) < CatalogIndex(rlog[k].name)
    /\ SomeSet =>
          /\ \A n \in DOMAIN aframe.futures : aframe.futures[n].done
          /\ \A i \in CallableActions(aframe.actions, aframe.mode) :
                Called(aframe.actions[i][1])

\* two futures completed against the order of the catalog and both values
\* were applied
C15_Witness ==
    /\ aframe.pc = "done"
    /\ \E j, k, l, m \in DOMAIN rlog :
          /\ j < k /\ k < l /\ l < m
          /\ rlog[j].ev = "done" /\ rlog[k].ev = "done"
          /\ rlog[l].ev = "set" /\ rlog[m].ev = "set"
          /\ rlog[j].name = rlog[m].name
          /\ rlog[k].name = rlog[l].name

\* C16: whatever Actions._execute invokes, applies or fails on is a
\* configured action of the catalog and of the phase; no other configured
\* action, recognized or not, is touched or raises
C16_OnlyPhaseActions ==
    \A k \in DOMAIN rlog :
        /\ Recognized(rlog[k].name)
        /\ OfPhase(rlog[k].name, aframe.mode)
        /\ ActionsGet(aframe.actions, rlog[k].name) # Literal(PyNone)

\* an execution completed and applied a value although an unrecognized
\* callable and an action of the other phase were configured
C16_Witness ==
    /\ aframe.pc = "done"
    /\ SomeSet
    /\ \E i \in DOMAIN aframe.actions :
          ~Recognized(aframe.actions[i][1]) /\ callable(aframe.actions[i][2])
    /\ \E i \in DOMAIN aframe.actions :
          /\ Recognized(aframe.actions[i][1])
          /\ ~OfPhase(aframe.actions[i][1], aframe.mode)

----------------------------------------------------------------------------
(* class Rule and class Rules.  A rule carries the number it was           *)
(* registered under; exchange.matched_rules is None or a list of rules.    *)

\* Rule.__init__
Rule(criteria, actions, stop) ==
    [id |-> 0, criteria |-> criteria, actions |-> actions, stop |-> stop]

MaxRules == 2

\* execute_input_actions, then execute_output_actions
MaxPasses == 2

RulePool ==
    { Rule(CriteriaInit(<< << << "path" >>,
                              Literal(PyStr(<< "/", "a" >>)) >> >>),
           << << << "set", "output", "header" >>, Callable("later_t") >>,
              << << "set", "path" >>, Callable("later_b") >> >>,
           FALSE),
      Rule(CriteriaInit(<< << << "custom" >>, Callable("path_is_b") >> >>),
           << << << "set", "redis", "queue" >>, Callable("later_s") >>,
              << << "custom", "output" >>, Callable("ret_none") >> >>,
           TRUE),
      Rule(CriteriaInit(<< >>),
           << << << "set", "status", "code" >>,
                 Literal(PyInt(<< "2", "0", "0" >>)) >> >>,
           FALSE),
      Rule(CriteriaInit(<< << << "custom" >>, Callable("boom") >> >>),
           << >>, FALSE),
      Rule(CriteriaInit(<< << << "method" >>,
                              Literal(PyStr(<< "G", "E", "T" >>)) >> >>),
           << << << "set", "redis", "queue" >>, Callable("boom") >> >>,
           FALSE),
      Rule(CriteriaInit(<< << << "path" >>, Glob(<< "/", "a", "*" >>) >> >>),
           << << << "set", "output", "header" >>,
                 Literal(PyTuple(<< "h", "v" >>)) >> >>,
           TRUE) }

\* the frame of a Rules._execute that is not running
NoPass ==
    [pc |-> "idle", mode |-> "", i |-> 0, matched_rules |-> << >>,
     rules |-> << >>, test |-> TRUE, passes |-> 0]

InitRules ==
    /\ DispatchUnused
    /\ exchange = NewExchange(<< "/", "a" >>, << "G", "E", "T" >>)
    /\ ruleset = << >>
    /\ rframe = NoPass
    /\ aframe = ActionsInit(<< >>)
    /\ rlog = << >>
    /\ cframe = << >>

\* Rules.add, between two passes
RulesAdd(rule) ==
    /\ rframe.pc \in { "idle", "raised" }
    /\ Len(ruleset) < MaxRules
    /\ ruleset' = Append(ruleset, [rule EXCEPT !.id = Len(ruleset) + 1])
    /\ UNCHANGED << exchange, rframe, aframe, rlog >>

\* Rules._execute(exchange, mode) up to the loop
RulesExecute_MatchingAgain(mode) ==
    /\ rframe.pc \in { "idle", "raised" }
    /\ rframe.passes < MaxPasses
    /\ rframe' = [pc |-> "loop", mode |-> mode, i |-> 1,
                  matched_rules |-> << >>, rules |-> ruleset, test |-> TRUE,
                  passes |-> rframe.passes + 1]
    /\ rlog' = Append(rlog, Event("pass", 0, << mode >>, PyNone))
    /\ UNCHANGED << exchange, ruleset, aframe >>

RulesExecute(mode) ==
    /\ rframe.pc \in { "idle", "raised" }
    /\ rframe.passes < MaxPasses
    /\ rframe' = [pc |-> "loop", mode |-> mode, i |-> 1,
                  matched_rules |-> << >>,
                  rules |-> IF exchange.matched_rules.is_none THEN ruleset
                            ELSE exchange.matched_rules.rules,
                  test |-> exchange.matched_rules.is_none,
                  passes |-> rframe.passes + 1]
    /\ rlog' = Append(rlog, Event("pass", 0, << mode >>, PyNone))
    /\ UNCHANGED << exchange, ruleset, aframe >>

\* one turn of the loop up to the call of the actions: the criteria of the
\* rule are matched, unless the rules are those matched before
RulesMatch_RecordingOnRaise ==
    /\ rframe.pc = "loop"
    /\ rframe.i <= Len(rframe.rules)
    /\ LET rule == rframe.rules[rframe.i]
           r == IF rframe.test THEN match(rule.criteria, exchange)
                ELSE MatchResult(FALSE, TRUE)
           tested == IF rframe.test
                     THEN << Event("criteria", rule.id, << >>, PyNone) >>
                     ELSE << >>
       IN  IF r.raises
           THEN /\ rframe' = [rframe EXCEPT !.pc = "raised"]
                /\ rlog' = rlog \o tested
                              \o << Event("raise", rule.id, << >>, PyNone) >>
                /\ exchange' = [exchange EXCEPT !.matched_rules =
                                  [is_none |-> FALSE,
                                   rules |-> rframe.matched_rules]]
                /\ UNCHANGED aframe
           ELSE IF r.match
           THEN /\ rframe' = [rframe EXCEPT !.pc = "actions"]
                /\ aframe' = ActionsEnter(ActionsInit(rule.actions),
                                          rframe.mode, rule.id)
                /\ rlog' = rlog \o tested
                              \o << Event("actions", rule.id, << >>, PyNone) >>
                /\ UNCHANGED exchange
           ELSE /\ rframe' = [rframe EXCEPT !.i = @ + 1]
                /\ rlog' = rlog \o tested
                /\ UNCHANGED << exchange, aframe >>
    /\ UNCHANGED ruleset

RulesMatch ==
    /\ rframe.pc = "loop"
    /\ rframe.i <= Len(rframe.rules)
    /\ LET rule == rframe.rules[rframe.i]
           r == IF rframe.test THEN match(rule.criteria, exchange)
                ELSE MatchResult(FALSE, TRUE)
           tested == IF rframe.test
                     THEN << Event("criteria", rule.id, << >>, PyNone) >>
                     ELSE << >>
       IN  IF r.raises
           THEN /\ rframe' = [rframe EXCEPT !.pc = "raised"]
                /\ rlog' = rlog \o tested
                              \o << Event("raise", rule.id, << >>, PyNone) >>
                /\ UNCHANGED aframe
           ELSE IF r.match
           THEN /\ rframe' = [rframe EXCEPT !.pc = "actions"]
                /\ aframe' = ActionsEnter(ActionsInit(rule.actions),
                                          rframe.mode, rule.id)
                /\ rlog' = rlog \o tested
                              \o << Event("actions", rule.id, << >>, PyNone) >>
           ELSE /\ rframe' = [rframe EXCEPT !.i = @ + 1]
                /\ rlog' = rlog \o tested
                /\ UNCHANGED aframe
    /\ UNCHANGED << exchange, ruleset >>

\* the actions of the rule have completed: the rule is recorded, and the
\* loop goes on unless the rule stops it
RulesMatched_NoBreak ==
    /\ rframe.pc = "actions"
    /\ aframe.pc = "done"
    /\ rframe' = [rframe EXCEPT
                    !.pc = "loop", !.i = @ + 1,
                    !.matched_rules = Append(@, rframe.rules[rframe.i])]
    /\ aframe' = ActionsInit(<< >>)
    /\ UNCHANGED << exchange, ruleset, rlog >>

RulesMatched ==
    /\ rframe.pc = "actions"
    /\ aframe.pc = "done"
    /\ LET rule == rframe.rules[rframe.i]
           matched_rules == Append(rframe.matched_rules, rule)
       IN  IF rule.stop
           THEN /\ rframe' = [rframe EXCEPT !.pc = "idle",
                                            !.matched_rules = matched_rules]
                /\ exchange' = [exchange EXCEPT !.matched_rules =
                                  [is_none |-> FALSE, rules |-> matched_rules]]
           ELSE /\ rframe' = [rframe EXCEPT !.pc = "loop", !.i = @ + 1,
                                            !.matched_rules = matched_rules]
                /\ UNCHANGED exchange
    /\ aframe' = ActionsInit(<< >>)
    /\ UNCHANGED << ruleset, rlog >>

\* the actions of the rule have raised: so does Rules._execute
RulesRaise_Swallowed ==
    /\ rframe.pc = "actions"
    /\ aframe.pc = "raised"
    /\ rframe' = [rframe EXCEPT !.pc = "loop", !.i = @ + 1]
    /\ aframe' = ActionsInit(<< >>)
    /\ UNCHANGED << exchange, ruleset, rlog >>

RulesRaise ==
    /\ rframe.pc = "actions"
    /\ aframe.pc = "raised"
    /\ rframe' = [rframe EXCEPT !.pc = "raised"]
    /\ aframe' = ActionsInit(<< >>)
    /\ UNCHANGED << exchange, ruleset, rlog >>

\* the end of the loop
RulesReturn ==
    /\ rframe.pc = "loop"
    /\ rframe.i > Len(rframe.rules)
    /\ rframe' = [rframe EXCEPT !.pc = "idle"]
    /\ exchange' = [exchange EXCEPT !.matched_rules =
                      [is_none |-> FALSE, rules |-> rframe.matched_rules]]
    /\ UNCHANGED << ruleset, aframe, rlog >>

NotOfRules == << dvars, cframe >>

NextRules ==
    \/ \E rule \in RulePool : RulesAdd(rule) /\ UNCHANGED NotOfRules
    \/ \E mode \in { "input", "output" } :
          RulesExecute(mode) /\ UNCHANGED NotOfRules
    \/ RulesMatch /\ UNCHANGED NotOfRules
    \/ ActionsResolve /\ UNCHANGED << NotOfRules, ruleset, rframe >>
    \/ ActionsYield /\ UNCHANGED << NotOfRules, ruleset, rframe >>
    \/ \E n \in Range(action_names) :
          FutureDone(n) /\ UNCHANGED << NotOfRules, ruleset, rframe >>
    \/ ActionsGather /\ UNCHANGED << NotOfRules, ruleset, rframe >>
    \/ ActionsApply /\ UNCHANGED << NotOfRules, ruleset, rframe >>
    \/ ActionsReturn /\ UNCHANGED << NotOfRules, ruleset, rframe >>
    \/ RulesMatched /\ UNCHANGED NotOfRules
    \/ RulesRaise /\ UNCHANGED NotOfRules
    \/ RulesReturn /\ UNCHANGED NotOfRules

SpecRules == InitRules /\ [][NextRules]_vars

(* What the claims about Rules speak of.  The events of the running or     *)
(* last pass are those after the last "pass" event.                        *)

PassStart ==
    IF \E k \in DOMAIN rlog : rlog[k].ev = "pass"
    THEN CHOOSE k \in DOMAIN rlog :
            /\ rlog[k].ev = "pass"
            /\ \A j \in DOMAIN rlog : rlog[j].ev = "pass" => j <= k
    ELSE 0

CurrentPass == { k \in DOMAIN rlog : k > PassStart }

\* the pass has come to the rule: its criteria were matched, or its actions
\* were executed
Reached(rule) ==
    \E k \in CurrentPass :
        rlog[k].rule = rule.id /\ rlog[k].ev \in { "criteria", "actions" }

Completed == rframe.pc = "idle" /\ rframe.passes > 0

\* C11: once a rule with stop set has matched, nothing of a rule declared
\* after it is evaluated or executed in that pass; and a completed pass has
\* come to every rule that no matched rule with stop set precedes
C11_StopEndsPass ==
    /\ \A j, k \in CurrentPass :
          (/\ j < k
           /\ rlog[j].ev = "actions"
           /\ ruleset[rlog[j].rule].stop) => ~(rlog[k].rule > rlog[j].rule)
    /\ Completed =>
          \A p \in DOMAIN rframe.rules :
              (\A q \in 1..(p - 1) :
                  ~(rframe.rules[q].stop
                    /\ \E k \in CurrentPass :
                          rlog[k].ev = "actions"
                          /\ rlog[k].rule = rframe.rules[q].id))
              => Reached(rframe.rules[p])

\* a pass over two rules completed: the first one has stop set and matched,
\* the second one was not come to
C11_Witness ==
    /\ Completed
    /\ Len(rframe.rules) = 2
    /\ rframe.rules[1].stop
    /\ rframe.matched_rules = << rframe.rules[1] >>
    /\ ~Reached(rframe.rules[2])

\* an input pass was run on the exchange before the running or last pass
AfterInputPass ==
    \E k \in DOMAIN rlog :
        k < PassStart /\ rlog[k].ev = "pass" /\ rlog[k].name = << "input" >>

\* C12: an output pass on an exchange that has been through an input pass
\* evaluates no criterion
C12_OutputWithoutMatching ==
    (rframe.mode = "output" /\ AfterInputPass) =>
        \A k \in CurrentPass : rlog[k].ev # "criteria"

\* C18: when a criterion or an action of a rule raises, nothing more is
\* evaluated or executed in that pass, and the pass itself raises
C18_RaiseEndsPass ==
    \A k \in CurrentPass :
        rlog[k].ev = "raise" =>
            /\ k = Len(rlog)
            /\ \/ rframe.pc = "raised"
               \/ rframe.pc = "actions" /\ aframe.pc = "raised"

\* a pass over two rules raised in an action of the first one
C18_Witness ==
    /\ rframe.pc = "raised"
    /\ Len(rframe.rules) = 2
    /\ rframe.i = 1
    /\ rlog # << >>
    /\ rlog[Len(rlog)].ev = "raise"
    /\ rlog[Len(rlog)].name # << >>

\* from the j-th event, where the actions of a rule were called, every
\* action of the rule and of the phase was invoked, its future completed
\* and its value applied
Logged(j, ev, name) ==
    \E k \in CurrentPass :
        /\ k > j
        /\ rlog[k].ev = ev
        /\ rlog[k].rule = rlog[j].rule
        /\ rlog[k].name = name

ActionsComplete(j) ==
    LET actions == ruleset[rlog[j].rule].actions
    IN  \A i \in DOMAIN actions :
            LET name == actions[i][1]
                action == actions[i][2]
            IN  (/\ Recognized(name)
                 /\ OfPhase(name, rframe.mode)
                 /\ ~NotTruthy(action)) =>
                    /\ callable(action) =>
                          /\ Logged(j, "call", name)
                          /\ Call(action.f, exchange).future = "pending" =>
                                Logged(j, "done", name)
                    /\ (/\ ~is_custom_action_name(name)
                        /\ callable(action) =>
                              Call(action.f, exchange).value # PyNone) =>
                          Logged(j, "set", name)

\* C19: a pass takes the rules one at a time in their order: no criteria are
\* matched while actions are in progress, and when the pass comes to a later
\* rule every action of the rules before it has been invoked, resolved and
\* applied
C19_OneRuleAtATime ==
    /\ rframe.pc = "loop" => aframe.pc = "idle"
    /\ \A j, k \in CurrentPass : j < k => rlog[j].rule <= rlog[k].rule
    /\ \A j \in CurrentPass :
          (/\ rlog[j].ev = "actions"
           /\ \E k \in CurrentPass : rlog[k].rule > rlog[j].rule)
          => ActionsComplete(j)

\* in an input pass the second rule, whose criterion is that the path is
\* /b, matched after the first rule had set the path to /b from a future
C19_Witness ==
    /\ rframe.mode = "input"
    /\ rframe.test
    /\ Len(ruleset) = 2
    /\ ruleset[2].criteria =
          << << << "custom" >>, Callable("path_is_b") >> >>
    /\ \E j, k, l \in CurrentPass :
          /\ j < k /\ k < l
          /\ rlog[j].ev = "done" /\ rlog[j].rule = 1
          /\ rlog[k].ev = "set" /\ rlog[k].rule = 1
          /\ rlog[k].name = << "set", "path" >>
          /\ rlog[l].ev = "actions" /\ rlog[l].rule = 2

\* the list of matched rules follows the ruleset
MatchedRulesInOrder ==
    ~exchange.matched_rules.is_none =>
        LET m == exchange.matched_rules.rules
        IN  \A p \in DOMAIN m :
                /\ m[p].id \in DOMAIN ruleset
                /\ ruleset[m[p].id] = m[p]
                /\ \A q \in 1..(p - 1) : m[q].id < m[p].id
                /\ m[p].stop => p = Len(m)

\* C20: exchange.matched_rules, once set, is a subsequence of the ruleset
\* in its order without repetition, with a rule that has stop set only at
\* its end; and no step of an output pass on an exchange whose matched_rules
\* is set changes it
C20_MatchedRules ==
    /\ []MatchedRulesInOrder
    /\ [][(rframe'.mode = "output" /\ ~exchange.matched_rules.is_none) =>
            exchange'.matched_rules = exchange.matched_rules]_vars

\* an output pass completed after an input pass that had recorded two rules,
\* the second of them with stop set
C20_Witness ==
    /\ Completed
    /\ rframe.mode = "output"
    /\ ~rframe.test
    /\ AfterInputPass
    /\ Len(exchange.matched_rules.rules) = 2
    /\ exchange.matched_rules.rules[2].stop
    /\ \E k \in CurrentPass : rlog[k].ev = "set"

\* every pass before the running or last one was aborted by an exception
EarlierPassesRaised ==
    \A k \in DOMAIN rlog :
        (rlog[k].ev = "pass" /\ k < PassStart) =>
            \E j \in DOMAIN rlog :
                /\ j > k
                /\ rlog[j].ev = "raise"
                /\ \A l \in (k + 1)..j : rlog[l].ev # "pass"

Running == rframe.pc \in { "loop", "actions" }

\* after passes that were all aborted, matched_rules is unset and a pass
\* matches the criteria of the whole ruleset
UnsetAfterAbortedPasses ==
    (rframe.passes > 0 /\ EarlierPassesRaised) =>
        /\ rframe.test
        /\ Running => (rframe.rules = ruleset /\ exchange.matched_rules.is_none)
        /\ rframe.pc = "raised" => exchange.matched_rules.is_none
        /\ \A k \in CurrentPass :
              rlog[k].ev = "actions" =>
                  (k > 1 /\ rlog[k - 1].ev = "criteria"
                         /\ rlog[k - 1].rule = rlog[k].rule)

\* C21: exchange.matched_rules changes only in the step that ends a pass
\* normally, so a pass aborted by an exception leaves it as it was before
\* the pass; and while every pass so far was aborted it is unset, and the
\* next pass matches criteria against the whole ruleset
C21_AbortedPassLeavesMatchedRules ==
    /\ []UnsetAfterAbortedPasses
    /\ [][exchange'.matched_rules # exchange.matched_rules =>
            (Running /\ rframe'.pc = "idle")]_vars

\* the first pass raised in the second rule after the first rule had
\* matched and been executed; the second pass is matching criteria
C21_Witness ==
    /\ rframe.passes = 2
    /\ EarlierPassesRaised
    /\ exchange.matched_rules.is_none
    /\ \E k \in CurrentPass : rlog[k].ev = "criteria"
    /\ \E j, k \in DOMAIN rlog :
          /\ j < k /\ k < PassStart
          /\ rlog[j].ev = "actions" /\ rlog[j].rule = 1
          /\ rlog[k].ev = "raise" /\ rlog[k].rule = 2

----------------------------------------------------------------------------
(* Progress of the worker.  The counters start at zero: no request of      *)
(* another process holds a place.  Every coroutine that can take its next  *)
(* step takes it: the calls of redis and of the backend always answer, the *)
(* backend with a response or with an error.  One intake slot stands for   *)
(* the request_redis_handler coroutines of all the queues of a worker, so  *)
(* the fairness of the coroutine of one queue is strong fairness of its    *)
(* BRPOP.                                                                  *)

InitLive == Init /\ preset = [k \in AllKeys |-> 0]

Fairness ==
    /\ \A w \in Workers :
          /\ \A q \in Queues :
                SF_vars(RequestRedisHandlerBRPOP(w, q) /\ UNCHANGED rvars)
          /\ WF_vars(RequestRedisHandlerPut(w) /\ UNCHANGED rvars)
          /\ WF_vars(RequestToroHandlerGet(w) /\ UNCHANGED rvars)
    /\ \A e \in 1..MaxEntries :
          /\ WF_vars(RequestToroHandlerCheck(e) /\ UNCHANGED rvars)
          /\ WF_vars(RequestToroHandlerRequeue(e) /\ UNCHANGED rvars)
          /\ WF_vars(ProcessRequestIncr(e) /\ UNCHANGED rvars)
          /\ WF_vars((\E ok \in BOOLEAN : ProcessRequestBody(e, ok))
                        /\ UNCHANGED rvars)
          /\ WF_vars((\E ok \in BOOLEAN, r \in BackendResponses :
                          ProcessRequestFetch(e, ok, r))
                        /\ UNCHANGED rvars)
          /\ WF_vars(FinalizeRequestDecr(e) /\ UNCHANGED rvars)
          /\ WF_vars(FinalizeRequestPublish(e) /\ UNCHANGED rvars)

SpecLive == InitLive /\ [][Next]_vars /\ Fairness

\* the request has passed the admission check
PastAdmission(e) ==
    pc[e] \in { "incr", "body", "fetch", "decr", "publish", "done" }

\* C22: every request pushed to a source queue is eventually admitted, and
\* eventually has a response pushed to its response key
C22_EventuallyAnswered ==
    \A e \in 1..MaxEntries :
        /\ (submitted[e] # << >>) ~> PastAdmission(e)
        /\ (submitted[e] # << >>) ~> (responses[e] # << >>)

====
